---- MODULE Spec2Model ----
(***************************************************************************)
(* FurnitureRLSimEnv (furniture_bench/envs/furniture_rl_sim_env.py): the   *)
(* per-step control, lamp-bulb hold and assembly/reward state machine of   *)
(* the vectorised environment, and its per-environment reset.              *)
(*                                                                         *)
(* Scalars of the action vector and the gripper are kept in thousandths    *)
(* (1.0 is 1000), so that the hysteresis margin 0.02 - 0.001 is 19.        *)
(* Engine-derived quantities (rigid-body poses after a physics step) are   *)
(* the physics engine's outcome: an input of the operation that refreshes  *)
(* them, reduced to what the code computes from them.                      *)
(***************************************************************************)
EXTENDS Integers, Sequences, FiniteSets, TLC

\* ---------------------------------------------------------------- bounds
\* Number of parallel environments (num_envs).
NumEnvs == 2
\* Episode horizon passed at construction (max_env_steps).
max_env_steps == 3
\* Physics substeps per control tick (sim_steps).
sim_steps == 2
\* Admissible target poses per assembly pair (second axis of assembled_rel_poses).
NumPoses == 2

Envs == 0 .. (NumEnvs - 1)
Poses == 1 .. NumPoses

\* ------------------------------------------------------ program constants
\* self.grasp_margin = 0.02 - 0.001
grasp_margin == 19
\* config["robot"]["max_gripper_width"][furniture]
max_gripper_width == 80
\* action_space.low / action_space.high
act_low == -1000
act_high == 1000
\* self.last_grasp = torch.tensor([-1.0] * num_envs)
init_last_grasp == -1000
\* self.lb_rest_poses is recorded after this many refreshes in reset()
lamp_settle_refreshes == 10

\* The furniture names with force/torque multipliers and an assembly-pair table.
SupportedFurniture ==
    {"one_leg", "lamp", "round_table", "square_table", "mug_rack",
     "factory_peg_hole", "factory_nut_bolt"}

\* increment_randomness: the caps and the increments, in 1/10000
force_magnitude_limit == 10000
torque_magnitude_limit == 500
force_increment == 100
torque_increment == 5

\* The ceilings the constructor sets for a randomness level, in 1/10000:
\* 0.2 / 0.007, 0.5 / 0.01, 0.75 / 0.015.
InitialCeilings(randomness) ==
    IF randomness = "low" THEN [force |-> 2000, torque |-> 70]
    ELSE IF randomness = "med" THEN [force |-> 5000, torque |-> 100]
    ELSE [force |-> 7500, torque |-> 150]

SupportedRandomness == {"low", "med", "high"}

\* max_obstacle_offset (thousandths of a metre) and franka_joint_rand_lim_deg
\* (degrees) by randomness level, before randomize_obstacle is applied.
InitialLimits(randomness) ==
    IF randomness = "low" THEN [obstacle |-> 20, joint |-> 5]
    ELSE IF randomness = "med" THEN [obstacle |-> 40, joint |-> 10]
    ELSE [obstacle |-> 60, joint |-> 13]

\* The range of the part position offsets of factory furniture (thousandths of
\* a metre) and of their yaw offsets (degrees).
factory_pos_range == 10
factory_yaw_range == 45

\* create_envs: the table position and half width, in thousandths of a metre.
table_pos == [x |-> 800, y |-> 800, z |-> 400]
table_half_width == 15

\* Homogeneous 4x4 pose matrices: rows of integers, lengths in thousandths of a
\* metre, rotations with entries in {-1, 0, 1}.
Identity3 == << << 1, 0, 0 >>, << 0, 1, 0 >>, << 0, 0, 1 >> >>
RotZ90 == << << 0, -1, 0 >>, << 1, 0, 0 >>, << 0, 0, 1 >> >>
RotX180 == << << 1, 0, 0 >>, << 0, -1, 0 >>, << 0, 0, -1 >> >>
RotX180Z90 == << << 0, -1, 0 >>, << -1, 0, 0 >>, << 0, 0, -1 >> >>

\* The homogeneous matrix of a rotation and a position.
Hom(rot, pos) ==
    << rot[1] \o << pos[1] >>, rot[2] \o << pos[2] >>, rot[3] \o << pos[3] >>,
       << 0, 0, 0, 1 >> >>

\* A @ B for 4x4 matrices.
MatMul(A, B) ==
    [i \in 1 .. 4 |-> [j \in 1 .. 4 |->
        A[i][1] * B[1][j] + A[i][2] * B[2][j] + A[i][3] * B[3][j] + A[i][4] * B[4][j]]]

\* np.linalg.inv of a pose matrix [R t; 0 1] with R orthogonal: [R^T  -R^T t; 0 1].
inv(M) ==
    LET Rt == [i \in 1 .. 3 |-> [j \in 1 .. 3 |-> M[j][i]]]
        t == [i \in 1 .. 3 |->
                 -(Rt[i][1] * M[1][4] + Rt[i][2] * M[2][4] + Rt[i][3] * M[3][4])]
    IN  Hom(Rt, t)

\* ROBOT_HEIGHT and config["robot"]["tag_base_from_robot_base"] of
\* furniture_bench.config, which the environment imports: the calibration used
\* where the frames play no part.
DefaultCalibration ==
    [ROBOT_HEIGHT |-> 15,
     tag_base_from_robot_base |-> Hom(RotX180Z90, << 230, 0, -15 >>)]

Min(a, b) == IF a <= b THEN a ELSE b

\* pairs_to_assemble by furniture name; no table (the constructor raises) for
\* any other name.
pairs_to_assemble(name) ==
    IF name = "one_leg" THEN << <<0, 4>> >>
    ELSE IF name = "lamp" THEN << <<0, 1>>, <<0, 2>> >>
    ELSE IF name = "round_table" THEN << <<0, 1>>, <<1, 2>> >>
    ELSE IF name = "square_table" THEN << <<0, 1>>, <<0, 2>>, <<0, 3>>, <<0, 4>> >>
    ELSE IF name \in SupportedFurniture THEN << <<0, 1>> >>
    ELSE << >>

\* Observation keys as their "/"-separated components.
ParseKey(prefix, name) == << prefix, name >>

\* The keys of robot_state_dict in _read_robot_state.
RobotStateDictKeys ==
    {"joint_positions", "joint_velocities", "joint_torques", "ee_pos", "ee_quat",
     "ee_pos_vel", "ee_ori_vel", "gripper_width", "gripper_finger_1_pos",
     "gripper_finger_2_pos"}

\* self.robot_state_keys = [k.split("/")[1] for k in obs_keys if k.startswith("robot_state")]
robot_state_keys(obs_keys) == {k[2] : k \in {q \in obs_keys : q[1] = "robot_state"}}

\* observation_space accepts robot_state/<a robot state>, color*, depth* and
\* parts_poses and raises ValueError for any other key.
SupportedObsKey(k) ==
    \/ k[1] = "robot_state" /\ k[2] \in RobotStateDictKeys
    \/ k[1] \in {"color_image1", "color_image2", "depth_image1", "depth_image2", "parts_poses"}

\* The rotation representations the constructor accepts.
SupportedRotRepr == {"quat", "axis", "rot_6d"}

VARIABLES
    cfg,                \* construction arguments: furniture_name, manual_label, manual_done,
                        \* position_only (of the furniture), include_parts_poses (from obs_keys)
    already_assembled,  \* [env -> [pair index -> BOOLEAN]]
    env_steps,          \* [env -> Nat]
    last_grasp,         \* [env -> Int], the clamped grasp of the previous step
    bulb_attrs_set,     \* whether reset() has created lb_rest_poses and _moving_bulbs
    moving_bulbs,       \* [env -> BOOLEAN], self._moving_bulbs
    hand_bulb_close,    \* [env -> BOOLEAN], is_similar_pos(bulb, hand) on rb_states as last refreshed
    grip_sep,           \* [env -> Int], gripper width commanded by the last step
    ctrl_goal,          \* [env -> [pos, rot, finger_pos, finger_torque]], the action's
                        \* position and rotation components behind the goal last given
                        \* to step_ctrl.set_goal, and the position target and actuation
                        \* force last set for each of the two finger joints
    obs,                \* the observation last returned: parts_poses, when obs_keys asks for
                        \* them, reduced to the relative pose of every pair
    reward,             \* [kind |-> "unset" | "tensor" | "None", val |-> [env -> Int]]
    terminated,         \* [env -> BOOLEAN], as returned by the last step
    truncated,          \* [env -> BOOLEAN], as returned by the last step
    log,                \* the engine calls of the last operation, in order
    max_force_magnitude,   \* the force ceiling, in 1/10000
    max_torque_magnitude,  \* the torque ceiling, in 1/10000
    furnitures,         \* [env -> set of pair indices], the pairs the Furniture object of
                        \* each environment has recorded as assembled
    op                  \* the last operation: [name, env_idxs, raised, action], raised
                        \* the exception it ended with, "none" when it returned, action
                        \* the argument of a step (<< >> otherwise)

vars ==
    << cfg, already_assembled, env_steps, last_grasp, bulb_attrs_set, moving_bulbs,
       hand_bulb_close, grip_sep, ctrl_goal, obs, reward, terminated, truncated, log,
       max_force_magnitude, max_torque_magnitude, furnitures, op >>

PairIdx == 1 .. Len(pairs_to_assemble(cfg.furniture_name))

\* action_space: pose_dim by rotation representation; an action has pose_dim + 1
\* components, the grasp last.
PoseDim ==
    IF cfg.act_rot_repr = "quat" THEN 7
    ELSE IF cfg.act_rot_repr = "rot_6d" THEN 9
    ELSE 6

\* ------------------------------------------------------------- helpers
Abs(x) == IF x < 0 THEN -x ELSE x

\* torch.sign
Sign(x) == IF x > 0 THEN 1 ELSE IF x < 0 THEN -1 ELSE 0

\* Faulty variant of Clamp: only the upper limit is enforced.
ClampUpper(x) == IF x > act_high THEN act_high ELSE x

\* torch.clamp(action, self.act_low, self.act_high), one component
Clamp(x) == IF x < act_low THEN act_low ELSE IF x > act_high THEN act_high ELSE x

\* action = torch.clamp(action, self.act_low, self.act_high), every component of
\* every environment's vector.
ClampAction(action) ==
    [e \in DOMAIN action |-> [i \in 1 .. Len(action[e]) |-> Clamp(action[e][i])]]

AllFalse == [e \in Envs |-> FALSE]

NoPairs == [e \in Envs |-> [i \in PairIdx |-> FALSE]]

\* The names of furniture.parts, in order; the lamp's bulb is "lamp_bulb".
part_names(name) ==
    IF name \in {"one_leg", "square_table"}
    THEN << "square_table_top", "square_table_leg1", "square_table_leg2",
            "square_table_leg3", "square_table_leg4" >>
    ELSE IF name = "lamp" THEN << "lamp_base", "lamp_bulb", "lamp_hood" >>
    ELSE IF name = "round_table"
    THEN << "round_table_top", "round_table_leg", "round_table_base" >>
    ELSE << "part1", "part2" >>

obstacle_names == << "obstacle_front", "obstacle_right", "obstacle_left" >>

\* find_actor_index(envs[env_idx], name, DOMAIN_SIM): the actor of that name in
\* that environment.
Actor(e, name) == << e, name >>

\* franka_actor_idxs_all_t, one row per environment
franka_actor_idxs_all_t == [e \in Envs |-> << Actor(e, "franka") >>]

\* actor_idx_by_env = cat([obstacle_actor_idx_by_env, part_actor_idx_by_env], dim=1)
actor_idx_by_env ==
    [e \in Envs |->
        [i \in 1 .. Len(obstacle_names) |-> Actor(e, obstacle_names[i])]
        \o [i \in 1 .. Len(part_names(cfg.furniture_name)) |->
                Actor(e, part_names(cfg.furniture_name)[i])]]

\* bulb_actor_idx_by_env: the part actors named "lamp_bulb"
bulb_actor_idx_by_env ==
    [e \in Envs |->
        SelectSeq([i \in 1 .. Len(part_names(cfg.furniture_name)) |->
                      Actor(e, part_names(cfg.furniture_name)[i])],
                  LAMBDA a : a[2] = "lamp_bulb")]

\* table[env_idxs].view(-1): the rows of env_idxs, in order, as one index list.
RECURSIVE IndexList(_, _)
IndexList(table, env_idxs) ==
    IF env_idxs = {}
    THEN << >>
    ELSE LET e == CHOOSE x \in env_idxs : \A y \in env_idxs : x <= y
         IN  table[e] \o IndexList(table, env_idxs \ {e})

\* The index list an indexed engine call is given; empty for the calls that take
\* whole tensors.
ActorIdxs(actors, envs) ==
    IF actors = "franka" THEN IndexList(franka_actor_idxs_all_t, envs)
    ELSE IF actors = "parts_obstacles" THEN IndexList(actor_idx_by_env, envs)
    ELSE IF actors = "bulb" THEN IndexList(bulb_actor_idx_by_env, envs)
    ELSE << >>

Call(name, actors, envs) ==
    [call |-> name, actors |-> actors, envs |-> envs, idx |-> ActorIdxs(actors, envs)]

RECURSIVE Repeat(_, _)
Repeat(s, n) == IF n = 0 THEN << >> ELSE s \o Repeat(s, n - 1)

\* ---------------------------------------------------- engine call traces
\* The tensor refreshes that end simulate_step, noop and refresh.
RefreshTensors ==
    << Call("refresh_dof_state_tensor", "all", Envs),
       Call("refresh_dof_force_tensor", "all", Envs),
       Call("refresh_rigid_body_state_tensor", "all", Envs),
       Call("refresh_jacobian_tensors", "all", Envs) >>

\* FurnitureSimEnv.refresh: one physics step, then the refreshes.
Refresh ==
    << Call("simulate", "all", Envs), Call("fetch_results", "all", Envs) >> \o RefreshTensors

\* _set_bulb_poses: nothing is pushed for an empty index tensor.
SetBulbPoses(env_idxs) ==
    IF env_idxs = {}
    THEN << >>
    ELSE << Call("set_actor_root_state_tensor_indexed", "bulb", env_idxs) >>

\* ------------------------------------------------------ frame transforms
\* create_envs: franka_pose.p = Vec3(0.5 * -table_pos.x + 0.1, 0,
\* table_surface_z + ROBOT_HEIGHT), table_surface_z = table_pos.z + table_half_width.
franka_pose_p ==
    << 100 - (table_pos.x \div 2), 0, table_pos.z + table_half_width + cfg.ROBOT_HEIGHT >>

\* get_mat([franka_pose.p.x, franka_pose.p.y, franka_pose.p.z], [0, 0, 0])
franka_from_origin_mat == Hom(Identity3, franka_pose_p)

base_tag_from_robot_mat == cfg.tag_base_from_robot_base

april_to_sim_mat == MatMul(franka_from_origin_mat, base_tag_from_robot_mat)

sim_to_april_mat == MatMul(inv(base_tag_from_robot_mat), inv(franka_from_origin_mat))

sim_to_robot_mat == franka_from_origin_mat

april_to_robot_mat == base_tag_from_robot_mat

april_coord_to_sim_coord(april_coord_mat) == MatMul(april_to_sim_mat, april_coord_mat)

sim_coord_to_april_coord(sim_coord_mat) == MatMul(sim_to_april_mat, sim_coord_mat)

sim_coord_to_robot_coord(sim_coord_mat) == MatMul(sim_to_robot_mat, sim_coord_mat)

april_coord_to_robot_coord(april_coord_mat) == MatMul(april_to_robot_mat, april_coord_mat)

\* ------------------------------------------------------ random perturbation
\* The rigid bodies of the simulation: per environment the furniture parts, the
\* obstacles, the robot links and the table.
RigidBodies ==
    {Actor(e, n) : e \in Envs,
                   n \in {part_names(cfg.furniture_name)[i] :
                             i \in 1 .. Len(part_names(cfg.furniture_name))}
                      \cup {obstacle_names[i] : i \in 1 .. Len(obstacle_names)}
                      \cup {"panda_link0", "k_ee_link", "table"}}

\* rigid_body_index_by_env: the rigid body of part i of environment e.
rigid_body_index_by_env ==
    [e \in Envs |-> [i \in 1 .. Len(part_names(cfg.furniture_name)) |->
                        Actor(e, part_names(cfg.furniture_name)[i])]]

\* rigid_body_index_by_env.view(-1) as a set: the part instances.
PartInstances ==
    {rigid_body_index_by_env[e][i] :
        e \in Envs, i \in 1 .. Len(part_names(cfg.furniture_name))}

\* force_mul and torque_mul by furniture name, in 1/1000.
force_mul(name) ==
    IF name \in {"one_leg", "square_table"} THEN << 25000, 1000, 1000, 1000, 1000 >>
    ELSE IF name = "lamp" THEN << 8000, 15000, 30000 >>
    ELSE IF name = "round_table" THEN << 30000, 4000, 20000 >>
    ELSE IF name = "mug_rack" THEN << 50000, 20000 >>
    ELSE << 1, 1 >>

torque_mul(name) ==
    IF name \in {"one_leg", "square_table"} THEN << 70000, 1000, 1000, 1000, 1000 >>
    ELSE IF name = "lamp" THEN << 16000, 20000, 60000 >>
    ELSE IF name = "round_table" THEN << 60000, 4000, 10000 >>
    ELSE IF name = "mug_rack" THEN << 150000, 30000 >>
    ELSE << 1, 1 >>

\* cos and sin of force_theta, for draws at the quarter turns.
CosTheta(quarter) == IF quarter = 0 THEN 1 ELSE IF quarter = 2 THEN -1 ELSE 0
SinTheta(quarter) == IF quarter = 1 THEN 1 ELSE IF quarter = 3 THEN -1 ELSE 0

\* Faulty variant of ForceMagnitude: the draw is not scaled by the ceiling.
ForceMagnitudeUnscaled(draw, max_force) == draw

\* force_magnitude = torch.rand(...) * max_force_magnitude, the draw in percent.
ForceMagnitude(draw, max_force) == (draw * max_force) \div 100

\* z_torques = max_torque_magnitude * (torch.rand(...) * 2 - 1), the bracket in percent.
ZTorque(draw, max_torque) == (max_torque * draw) \div 100

\* forces: [magnitude cos, magnitude sin, 0] * force_multiplier, per part instance.
PartForces(max_force, sample) ==
    [b \in PartInstances |->
        LET e == b[1]
            i == CHOOSE k \in 1 .. Len(part_names(cfg.furniture_name)) :
                     rigid_body_index_by_env[e][k] = b
            m == ForceMagnitude(sample.mag[b], max_force)
        IN  << m * CosTheta(sample.theta[b]) * force_mul(cfg.furniture_name)[i],
               m * SinTheta(sample.theta[b]) * force_mul(cfg.furniture_name)[i],
               0 >>]

\* torques: [0, 0, z_torque * torque_multiplier], per part instance.
PartTorques(max_torque, sample) ==
    [b \in PartInstances |->
        LET e == b[1]
            i == CHOOSE k \in 1 .. Len(part_names(cfg.furniture_name)) :
                     rigid_body_index_by_env[e][k] = b
        IN  << 0, 0,
               ZTorque(sample.ztorque[b], max_torque) * torque_mul(cfg.furniture_name)[i] >>]

\* Faulty variant of FillSelected: the mask is ignored and every part instance
\* is filled.
FillAllParts(values, mask) ==
    [b \in RigidBodies |-> IF b \in DOMAIN values THEN values[b] ELSE << 0, 0, 0 >>]

\* all = torch.zeros((rigid_body_count, 3)); all[part_rigid_body_idxs[mask]] = values[mask]
FillSelected(values, mask) ==
    [b \in RigidBodies |-> IF b \in mask THEN values[b] ELSE << 0, 0, 0 >>]

\* _random_perturbation_of_parts(max_force_magnitude, max_torque_magnitude): the
\* one engine call it makes, with the tensors it sends. sample: the selection
\* mask and the draws of this call.
RandomPerturbationOfParts(max_force, max_torque, sample) ==
    << [call |-> "apply_rigid_body_force_tensors", actors |-> "parts", envs |-> Envs,
        idx |-> << >>,
        forces |-> FillSelected(PartForces(max_force, sample), sample.mask),
        torques |-> FillSelected(PartTorques(max_torque, sample), sample.mask)] >>

\* step(action) without sample_perturbations.
NoSample == [on |-> FALSE]

\* ------------------------------------------------------ reset randomization
\* The value a pattern of draws has at position k.
DrawOf(values, k) == values[(k % Len(values)) + 1]

\* A uniform draw in [-1, 1) in percent, scaled by a maximum.
Scale(draw, max) == (draw * max) \div 100

\* self.max_obstacle_offset *= int(randomize_obstacle)
max_obstacle_offset ==
    InitialLimits(cfg.randomness).obstacle * (IF cfg.randomize_obstacle THEN 1 ELSE 0)

franka_joint_rand_lim_deg == InitialLimits(cfg.randomness).joint

IsFactory == cfg.furniture_name \in {"factory_peg_hole", "factory_nut_bolt"}

PartIdx == 1 .. Len(part_names(cfg.furniture_name))

\* _reset_frankas: joint_offsets = rand * 2 * joint_range - joint_range, added to
\* the default joint positions of the seven arm joints.
JointOffsets(env_idxs, draws) ==
    [e \in env_idxs |-> [j \in 1 .. 7 |-> Scale(draws.joint[e][j], franka_joint_rand_lim_deg)]]

\* _reset_frankas: the staged joint state and its target, pushed for env_idxs.
ResetFrankas(env_idxs, draws) ==
    << [call |-> "set_dof_state_tensor_indexed", actors |-> "franka", envs |-> env_idxs,
        idx |-> ActorIdxs("franka", env_idxs),
        dof_pos |-> JointOffsets(env_idxs, draws)],
       Call("set_dof_position_target_tensor_indexed", "franka", env_idxs) >>

\* Faulty variant of ObstaclePosOffsets: the z component is not cleared.
ObstaclePosOffsetsFree(env_idxs, draws) ==
    [e \in env_idxs |-> [k \in 1 .. 3 |-> Scale(draws.obstacle[e][k], max_obstacle_offset)]]

\* obstacle_pos_offsets = (rand((n, 1, 3)) * 2 - 1) * max_obstacle_offset, z set to 0:
\* one offset per environment.
ObstaclePosOffsets(env_idxs, draws) ==
    [e \in env_idxs |->
        << Scale(draws.obstacle[e][1], max_obstacle_offset),
           Scale(draws.obstacle[e][2], max_obstacle_offset),
           0 >>]

\* part_pos_offsets of factory furniture; the other furniture gets reset_pos =
\* parts_initial_pos as it is.
PartPosOffsets(env_idxs, draws) ==
    [e \in env_idxs |-> [i \in PartIdx |->
        IF IsFactory
        THEN << Scale(draws.part_pos[e][i][1], factory_pos_range),
                Scale(draws.part_pos[e][i][2], factory_pos_range),
                0 >>
        ELSE << 0, 0, 0 >>]]

\* part_yaw_offsets of factory furniture, an axis-angle in degrees with x and y
\* cleared; the other furniture gets reset_ori = parts_initial_ori as it is.
PartYawOffsets(env_idxs, draws) ==
    [e \in env_idxs |-> [i \in PartIdx |->
        IF IsFactory
        THEN << 0, 0, Scale(draws.part_yaw[e][i][3], factory_yaw_range) >>
        ELSE << 0, 0, 0 >>]]

\* The part and obstacle actors of the environments env_idxs.
PartActors(env_idxs) ==
    {Actor(e, part_names(cfg.furniture_name)[i]) : e \in env_idxs, i \in PartIdx}

ObstacleActors(env_idxs) ==
    {Actor(e, obstacle_names[k]) : e \in env_idxs, k \in 1 .. Len(obstacle_names)}

\* The index of a part or an obstacle in its name list.
NameNo(names, name) == CHOOSE k \in 1 .. Len(names) : names[k] = name

\* _reset_part_poses: the rows of root_pos and root_quat written for env_idxs, as
\* offsets from parts_initial_pos, obstacle_initial_pos and parts_initial_ori,
\* and the one indexed push that commits them.
ResetPartPoses(env_idxs, pushed, draws) ==
    LET parts == PartActors(env_idxs)
        part_pos_offsets == PartPosOffsets(env_idxs, draws)
        part_yaw_offsets == PartYawOffsets(env_idxs, draws)
        obstacle_pos_offsets == ObstaclePosOffsets(env_idxs, draws)
        names == part_names(cfg.furniture_name)
    IN  [call |-> "set_actor_root_state_tensor_indexed", actors |-> "parts_obstacles",
         envs |-> pushed, idx |-> ActorIdxs("parts_obstacles", pushed),
         root_pos |->
            [a \in parts \cup ObstacleActors(env_idxs) |->
                IF a \in parts
                THEN part_pos_offsets[a[1]][NameNo(names, a[2])]
                ELSE obstacle_pos_offsets[a[1]]],
         root_quat |-> [a \in parts |-> part_yaw_offsets[a[1]][NameNo(names, a[2])]]]

\* Faulty variant of ResetForceBodies: the rigid bodies of the parts of every
\* environment.
ResetForceBodiesAll(env_idxs) == PartInstances

\* part_rigid_body_idxs = rigid_body_index_by_env[env_idxs]
ResetForceBodies(env_idxs) ==
    {rigid_body_index_by_env[e][i] : e \in env_idxs, i \in PartIdx}

\* _apply_forces_to_parts(env_idxs, max_force_magnitude, max_torque_magnitude):
\* tensors of zeros over all rigid bodies, filled at the parts of env_idxs.
ApplyForcesToParts(env_idxs, max_force, max_torque, draws) ==
    LET part_rigid_body_idxs == ResetForceBodies(env_idxs)
        forces == PartForces(max_force, draws)
        torques == PartTorques(max_torque, draws)
    IN  [call |-> "apply_rigid_body_force_tensors", actors |-> "parts",
         envs |-> env_idxs, idx |-> << >>,
         forces |-> [b \in RigidBodies |->
                        IF b \in part_rigid_body_idxs THEN forces[b] ELSE << 0, 0, 0 >>],
         torques |-> [b \in RigidBodies |->
                         IF b \in part_rigid_body_idxs THEN torques[b] ELSE << 0, 0, 0 >>]]

\* Faulty variant of ResetPartsMultiple: the push names the actors of every
\* environment, as a reset of the whole batch would.
ResetPartsMultipleAll(env_idxs, draws) ==
    << ResetPartPoses(env_idxs, Envs, draws),
       ApplyForcesToParts(env_idxs, max_force_magnitude, max_torque_magnitude, draws) >>

\* _reset_parts_multiple: _reset_part_poses, then _apply_forces_to_parts.
ResetPartsMultiple(env_idxs, draws) ==
    << ResetPartPoses(env_idxs, env_idxs, draws),
       ApplyForcesToParts(env_idxs, max_force_magnitude, max_torque_magnitude, draws) >>

\* The draws of one reset: signed percentages for the offsets, and for the
\* forces the quarter turn, magnitude and torque bracket of every part, all
\* shifted from environment to environment and part to part by a seed.
DrawsOf(seed) ==
    [joint |-> [e \in Envs |-> [j \in 1 .. 7 |-> DrawOf(<< -100, 60, 0, 99 >>, seed + e + j)]],
     obstacle |-> [e \in Envs |-> [k \in 1 .. 3 |->
                     DrawOf(<< -100, 50, 99, 0 >>, seed + e + k)]],
     part_pos |-> [e \in Envs |-> [i \in PartIdx |-> [k \in 1 .. 3 |->
                     DrawOf(<< 99, -100, 50, 0 >>, seed + e + i + k)]]],
     part_yaw |-> [e \in Envs |-> [i \in PartIdx |-> [k \in 1 .. 3 |->
                     DrawOf(<< 50, 99, -100, 0 >>, seed + e + i + k)]]],
     theta |-> [b \in PartInstances |-> (seed + b[1]) % 4],
     mag |-> [b \in PartInstances |-> DrawOf(<< 99, 50, 0 >>, seed + b[1])],
     ztorque |-> [b \in PartInstances |-> DrawOf(<< -100, 98, 0 >>, seed + b[1])]]

\* ------------------------------------------------------ gripper debounce
\* Faulty variant of GripSep: on a sign flip above the margin the width is read
\* off the previous grasp, as in the other branch.
GripSepOfLast(grasp, last) ==
    IF Sign(grasp) # Sign(last) /\ Abs(grasp) > grasp_margin
    THEN (IF last < 0 THEN max_gripper_width ELSE 0)
    ELSE (IF last < 0 THEN max_gripper_width ELSE 0)

\* simulate_step: grip_sep of one environment from its clamped grasp and last_grasp.
GripSep(grasp, last) ==
    IF Sign(grasp) # Sign(last) /\ Abs(grasp) > grasp_margin
    THEN (IF grasp < 0 THEN max_gripper_width ELSE 0)
    ELSE (IF last < 0 THEN max_gripper_width ELSE 0)

\* gripper_action_mask = (grip_sep > 0)
gripper_action_mask(sep) == sep > 0

\* torque_action[:, 7:9]: the actuation force of either finger joint, in units
\* of sim_config["robot"]["gripper_torque"].
FingerTorqueAction(sep) == IF gripper_action_mask(sep) THEN 1 ELSE -1

\* pos_action[:, 7:9]: the position target of either finger joint, half the
\* commanded width.
FingerPosAction(sep) == IF gripper_action_mask(sep) THEN max_gripper_width \div 2 ELSE 0

\* ------------------------------------------------------- lamp bulb hold
\* torch.any(self.env_steps > (self.max_env_steps / 2))
AnyPastHalf == \E e \in Envs : 2 * env_steps[e] > max_env_steps

\* to_rest of _handle_bulb_rest_pose: not already moving, hand not close to the bulb.
ToRest == {e \in Envs : ~moving_bulbs[e] /\ ~hand_bulb_close[e]}

\* _handle_bulb_rest_pose: (any_bulbs_unsettled, rest_bulb_env_idxs) and the new _moving_bulbs.
HandleBulbRestPose ==
    IF cfg.furniture_name # "lamp"
    THEN [any |-> FALSE, env_idxs |-> {}, moving |-> moving_bulbs]
    ELSE IF AnyPastHalf
    THEN [any |-> FALSE, env_idxs |-> {}, moving |-> moving_bulbs]
    ELSE [any |-> ToRest # {},
          env_idxs |-> ToRest,
          moving |-> [e \in Envs |-> moving_bulbs[e] \/ e \notin ToRest]]

\* _handle_bulb_rest_pose reads the bulb and hand positions from rb_states when
\* it gets past its two early returns.
HandleBulbReads ==
    IF cfg.furniture_name = "lamp" /\ ~AnyPastHalf
    THEN << Call("_handle_bulb_rest_pose", "rb_states", Envs) >>
    ELSE << >>

\* Faulty variant of SimulateStepCalls: the targets are set inside the substep
\* loop, once before every substep.
SimulateStepCallsPerSubstep(bulb) ==
    << Call("get_ee_pose", "rb_states", Envs),
       Call("get_ee_pose", "rb_states", Envs),
       Call("step_ctrl", "jacobian", Envs) >>
    \o HandleBulbReads
    \o Repeat(<< Call("set_dof_position_target_tensor", "all", Envs),
                 Call("set_dof_actuation_force_tensor", "all", Envs) >>
              \o (IF bulb.any THEN SetBulbPoses(bulb.env_idxs) ELSE << >>)
              \o << Call("simulate", "all", Envs) >>, sim_steps)
    \o << Call("fetch_results", "all", Envs) >>
    \o RefreshTensors

\* simulate_step: the end-effector pose read for the goal and again for the
\* controller state, the IK solve, the targets, the bulb decision, the substep
\* loop with the bulb hold, fetch and refresh.
SimulateStepCalls(bulb) ==
    << Call("get_ee_pose", "rb_states", Envs),
       Call("get_ee_pose", "rb_states", Envs),
       Call("step_ctrl", "jacobian", Envs),
       Call("set_dof_position_target_tensor", "all", Envs),
       Call("set_dof_actuation_force_tensor", "all", Envs) >>
    \o HandleBulbReads
    \o Repeat((IF bulb.any THEN SetBulbPoses(bulb.env_idxs) ELSE << >>)
              \o << Call("simulate", "all", Envs) >>, sim_steps)
    \o << Call("fetch_results", "all", Envs) >>
    \o RefreshTensors

\* ------------------------------------------- assembly / reward state machine
\* A relative pose of a pair, reduced to the admissible targets it is similar to
\* in position (is_similar_pos) and in rotation (is_similar_rot).
RelPose(pos, rot) == [pos |-> pos, rot |-> rot]

\* Faulty variant of AssembledAny: any(dim=0) taken of similar_rot and of
\* similar_pos separately, so the two may match different targets.
AssembledAnySeparately(i, rp) ==
    /\ (IF pairs_to_assemble(cfg.furniture_name)[i] \in cfg.position_only
        THEN TRUE
        ELSE \E p \in Poses : p \in rp.rot)
    /\ \E p \in Poses : p \in rp.pos

\* assembled_mask.any(dim=0) for pair i: some target matches in rotation and position.
AssembledAny(i, rp) ==
    \E p \in Poses :
        /\ (IF pairs_to_assemble(cfg.furniture_name)[i] \in cfg.position_only
            THEN TRUE
            ELSE p \in rp.rot)
        /\ p \in rp.pos

AssembledMask(rel_pose) ==
    [e \in Envs |-> [i \in PairIdx |-> AssembledAny(i, rel_pose[e][i])]]

\* Faulty variant of NewlyAssembledMask: without "& ~already_assembled", a pair
\* counts as new in every step in which its pose matches.
NewlyAssembledMaskUnmasked(mask, assembled) ==
    [e \in Envs |-> [i \in PairIdx |-> mask[e][i]]]

\* newly_assembled_mask[:, i] = assembled_mask.any(dim=0) & ~already_assembled[:, i]
NewlyAssembledMask(mask, assembled) ==
    [e \in Envs |-> [i \in PairIdx |-> mask[e][i] /\ ~assembled[e][i]]]

\* Faulty variant of UpdateAssembled: "=" for "|=", the bit follows the current pose.
UpdateAssembledOverwrite(assembled, newly) ==
    [e \in Envs |-> [i \in PairIdx |-> newly[e][i]]]

\* already_assembled[:, i] |= newly_assembled_mask[:, i]
UpdateAssembled(assembled, newly) ==
    [e \in Envs |-> [i \in PairIdx |-> assembled[e][i] \/ newly[e][i]]]

\* Faulty variant of Rewards: sum(dim=1) for any(dim=1), the number of new pairs.
RewardsCount(newly) ==
    [e \in Envs |-> Cardinality({i \in PairIdx : newly[e][i]})]

\* Faulty variant of Rewards: any() over the whole batch instead of any(dim=1).
RewardsBatch(newly) ==
    [e \in Envs |-> IF \E f \in Envs : \E i \in PairIdx : newly[f][i] THEN 1 ELSE 0]

\* rewards = newly_assembled_mask.any(dim=1).float()
Rewards(newly) ==
    [e \in Envs |-> IF \E i \in PairIdx : newly[e][i] THEN 1 ELSE 0]

\* What _reward returns: print(...) returns None.
RewardReturn(rewards) ==
    IF cfg.manual_done /\ (\E e \in Envs : rewards[e] = 1)
    THEN [kind |-> "None", val |-> [e \in Envs |-> 0]]
    ELSE [kind |-> "tensor", val |-> rewards]

\* Faulty variant of Terminated: done as soon as one pair is assembled.
TerminatedAny(assembled) ==
    [e \in Envs |->
        IF cfg.manual_done THEN FALSE ELSE \E i \in PairIdx : assembled[e][i]]

\* _done: terminated
Terminated(assembled) ==
    [e \in Envs |->
        IF cfg.manual_done
        THEN FALSE
        ELSE Cardinality({i \in PairIdx : assembled[e][i]})
                 = Len(pairs_to_assemble(cfg.furniture_name))]

\* Faulty variant of Truncated: the base class's comparison, one step late.
TruncatedLate(steps) ==
    [e \in Envs |-> IF cfg.manual_done THEN FALSE ELSE steps[e] > max_env_steps - 1]

\* _done: truncated
Truncated(steps) ==
    [e \in Envs |-> IF cfg.manual_done THEN FALSE ELSE steps[e] >= max_env_steps - 1]

\* get_observation: parts_poses only when "parts_poses" is among obs_keys.
GetObservation(rel_pose) ==
    IF cfg.include_parts_poses
    THEN [parts_poses |-> rel_pose]
    ELSE [parts_poses |-> [e \in Envs |-> [i \in PairIdx |-> RelPose({}, {})]]]

\* Furniture.all_assembled(): every pair the furniture requires is among those
\* the Furniture object has recorded.
all_assembled(recorded) == recorded = PairIdx

\* is_success(): [{"task": self.furnitures[env_idx].all_assembled()} for env_idx ...]
is_success == [e \in Envs |-> all_assembled(furnitures[e])]

\* _read_robot_state ends with {k: robot_state_dict[k] for k in self.robot_state_keys}:
\* a KeyError for a requested robot state the dictionary does not hold.
ReadRobotStateRaises == ~(robot_state_keys(cfg.obs_keys) \subseteq RobotStateDictKeys)

\* step after simulate_step: get_observation, then _reward and _done, which a
\* KeyError of get_observation keeps from running.
StepReads ==
    IF ReadRobotStateRaises
    THEN << Call("get_observation", "rb_states", Envs) >>
    ELSE << Call("get_observation", "rb_states", Envs),
            Call("_reward", "rb_states", Envs),
            Call("_done", "flags", Envs) >>

\* ------------------------------------------------------------ operations
\* FurnitureRLSimEnv.step(action, sample_perturbations).
\* action: one vector per environment, position delta, rotation encoding, grasp
\* (pose_dim + 1 components); rel_pose and close:
\* what the physics steps of this call leave in the rigid-body state.
\* simulate_step runs first; get_observation may then raise, before the reward,
\* the flags and the step counter are touched. sample: whether
\* sample_perturbations is set and, if so, the mask and draws of the perturbation.
StepWith(action, rel_pose, close, sample) ==
    LET clamped == ClampAction(action)
        grasp == [e \in Envs |-> clamped[e][Len(clamped[e])]]
        bulb == HandleBulbRestPose
        mask == AssembledMask(rel_pose)
        newly == NewlyAssembledMask(mask, already_assembled)
        assembled == UpdateAssembled(already_assembled, newly)
    IN  /\ cfg.furniture_name = "lamp" => bulb_attrs_set
        /\ cfg.furniture_name # "lamp" => close = AllFalse
        /\ \A e \in Envs : env_steps[e] < max_env_steps
        /\ grip_sep' = [e \in Envs |-> GripSep(grasp[e], last_grasp[e])]
        /\ last_grasp' = grasp
        /\ ctrl_goal' = [e \in Envs |->
                            LET sep == GripSep(grasp[e], last_grasp[e])
                            IN  [pos |-> SubSeq(clamped[e], 1, 3),
                                 rot |-> SubSeq(clamped[e], 4, PoseDim),
                                 finger_pos |-> FingerPosAction(sep),
                                 finger_torque |-> FingerTorqueAction(sep)]]
        /\ moving_bulbs' = bulb.moving
        /\ log' = SimulateStepCalls(bulb)
                   \o StepReads
                   \o (IF sample.on /\ ~ReadRobotStateRaises
                       THEN RandomPerturbationOfParts(max_force_magnitude,
                                                      max_torque_magnitude, sample)
                       ELSE << >>)
        /\ hand_bulb_close' = close
        /\ IF ReadRobotStateRaises
           THEN /\ op' = [name |-> "step", env_idxs |-> {}, raised |-> "KeyError",
                          action |-> action, sample |-> sample]
                /\ UNCHANGED << obs, already_assembled, reward, terminated, truncated,
                                env_steps >>
           ELSE /\ obs' = GetObservation(rel_pose)
                /\ already_assembled' = assembled
                /\ reward' = RewardReturn(Rewards(newly))
                /\ terminated' = Terminated(assembled)
                /\ truncated' = Truncated(env_steps)
                /\ env_steps' = [e \in Envs |-> env_steps[e] + 1]
                /\ op' = [name |-> "step", env_idxs |-> {}, raised |-> "none",
                          action |-> action, sample |-> sample]
        /\ UNCHANGED << cfg, bulb_attrs_set, furnitures, max_force_magnitude,
                        max_torque_magnitude >>

\* A call of one of the four frame conversions on a pose matrix: nothing of the
\* environment changes, the call returns the converted matrix.
ConvertCall(name, mat, result) ==
    /\ op' = [name |-> name, env_idxs |-> {}, raised |-> "none", action |-> << >>,
              arg |-> mat, result |-> result]
    /\ UNCHANGED << cfg, already_assembled, env_steps, last_grasp, bulb_attrs_set,
                    moving_bulbs, hand_bulb_close, grip_sep, ctrl_goal, obs, reward,
                    terminated, truncated, log, furnitures, max_force_magnitude,
                    max_torque_magnitude >>

\* step(action) with sample_perturbations at its default (False).
Step(action, rel_pose, close) == StepWith(action, rel_pose, close, NoSample)

\* A direct call of _random_perturbation_of_parts(max_force, max_torque).
RandomPerturbationCall(max_force, max_torque, sample) ==
    /\ log' = RandomPerturbationOfParts(max_force, max_torque, sample)
    /\ op' = [name |-> "_random_perturbation_of_parts", env_idxs |-> {},
              raised |-> "none", action |-> << >>, sample |-> sample,
              max_force |-> max_force, max_torque |-> max_torque]
    /\ UNCHANGED << cfg, already_assembled, env_steps, last_grasp, bulb_attrs_set,
                    moving_bulbs, hand_bulb_close, grip_sep, ctrl_goal, obs, reward,
                    terminated, truncated, furnitures, max_force_magnitude,
                    max_torque_magnitude >>

\* noop(): sim_steps physics steps, one fetch, the four refreshes, then
\* get_observation, whose result is returned. Nothing of the Python-side
\* bookkeeping is written.
NoopCalls ==
    Repeat(<< Call("simulate", "all", Envs) >>, sim_steps)
        \o << Call("fetch_results", "all", Envs) >>
        \o RefreshTensors
        \o << Call("get_observation", "rb_states", Envs) >>

\* Faulty variant of Noop: the call is counted as a step.
NoopStepping(rel_pose, close) ==
    /\ cfg.furniture_name # "lamp" => close = AllFalse
    /\ \A e \in Envs : env_steps[e] < max_env_steps
    /\ hand_bulb_close' = close
    /\ log' = NoopCalls
    /\ env_steps' = [e \in Envs |-> env_steps[e] + 1]
    /\ IF ReadRobotStateRaises
       THEN /\ op' = [name |-> "noop", env_idxs |-> {}, raised |-> "KeyError",
                      action |-> << >>]
            /\ UNCHANGED obs
       ELSE /\ obs' = GetObservation(rel_pose)
            /\ op' = [name |-> "noop", env_idxs |-> {}, raised |-> "none",
                      action |-> << >>]
    /\ UNCHANGED << cfg, already_assembled, last_grasp, bulb_attrs_set,
                    moving_bulbs, grip_sep, ctrl_goal, reward, terminated, truncated,
                    furnitures, max_force_magnitude, max_torque_magnitude >>

Noop(rel_pose, close) ==
    /\ cfg.furniture_name # "lamp" => close = AllFalse
    /\ hand_bulb_close' = close
    /\ log' = NoopCalls
    /\ IF ReadRobotStateRaises
       THEN /\ op' = [name |-> "noop", env_idxs |-> {}, raised |-> "KeyError",
                      action |-> << >>]
            /\ UNCHANGED obs
       ELSE /\ obs' = GetObservation(rel_pose)
            /\ op' = [name |-> "noop", env_idxs |-> {}, raised |-> "none",
                      action |-> << >>]
    /\ UNCHANGED << cfg, already_assembled, env_steps, last_grasp, bulb_attrs_set,
                    moving_bulbs, grip_sep, ctrl_goal, reward, terminated, truncated,
                    furnitures, max_force_magnitude, max_torque_magnitude >>

\* A call of is_success(): the list is returned, nothing is written.
IsSuccessCall ==
    /\ log' = << >>
    /\ op' = [name |-> "is_success", env_idxs |-> {}, raised |-> "none",
              action |-> << >>, result |-> is_success]
    /\ UNCHANGED << cfg, already_assembled, env_steps, last_grasp, bulb_attrs_set,
                    moving_bulbs, hand_bulb_close, grip_sep, ctrl_goal, obs, reward,
                    terminated, truncated, furnitures, max_force_magnitude,
                    max_torque_magnitude >>

\* already_assembled[env_idxs] = 0
ClearAssembled(assembled, env_idxs) ==
    [e \in Envs |-> IF e \in env_idxs THEN [i \in PairIdx |-> FALSE] ELSE assembled[e]]

\* Faulty variant of ClearSteps: the counters of all environments are zeroed.
ClearStepsAll(steps, env_idxs) ==
    [e \in Envs |-> 0]

\* env_steps[env_idxs] = 0
ClearSteps(steps, env_idxs) ==
    [e \in Envs |-> IF e \in env_idxs THEN 0 ELSE steps[e]]

\* self._moving_bulbs = torch.tensor([False] * self.num_envs) (lamp only)
ResetMovingBulbs(moving, env_idxs) ==
    IF cfg.furniture_name = "lamp" THEN AllFalse ELSE moving

\* Faulty variant of ResetCalls: the refresh before the observation is missing.
ResetCallsUnrefreshed(env_idxs, draws) ==
    ResetFrankas(env_idxs, draws)
    \o ResetPartsMultiple(env_idxs, draws)
    \o (IF cfg.furniture_name = "lamp"
        THEN Repeat(Refresh, lamp_settle_refreshes)
             \o << Call("lb_rest_poses", "rb_states", Envs) >>
             \o SetBulbPoses(env_idxs)
        ELSE << >>)
    \o << Call("get_observation", "rb_states", Envs) >>

\* The engine calls of reset(env_idxs) and its reads of the rigid-body state:
\* the bulb rest poses of the lamp and the observation it returns.
ResetCalls(env_idxs, draws) ==
    ResetFrankas(env_idxs, draws)
    \o ResetPartsMultiple(env_idxs, draws)
    \o (IF cfg.furniture_name = "lamp"
        THEN Repeat(Refresh, lamp_settle_refreshes)
             \o << Call("lb_rest_poses", "rb_states", Envs) >>
             \o SetBulbPoses(env_idxs)
        ELSE << >>)
    \o Refresh
    \o << Call("get_observation", "rb_states", Envs) >>

\* FurnitureRLSimEnv.reset(env_idxs); env_idxs = None is reset(Envs).
\* rel_pose and close: what the refreshes of this call leave in the rigid-body
\* state. The reward and flags a step returned are dropped: reset returns the
\* observation only. draws: what torch.rand returns in this call.
ResetWith(env_idxs, rel_pose, close, draws) ==
    IF env_idxs = {}
    THEN \* assert env_idxs.numel() > 0
         /\ log' = << >>
         /\ op' = [name |-> "reset", env_idxs |-> env_idxs, raised |-> "AssertionError",
                    action |-> << >>, draws |-> draws]
         /\ UNCHANGED << cfg, already_assembled, env_steps, last_grasp, bulb_attrs_set,
                         moving_bulbs, hand_bulb_close, grip_sep, ctrl_goal, obs, reward,
                         terminated,
                         truncated, furnitures, max_force_magnitude,
                         max_torque_magnitude >>
    ELSE /\ cfg.furniture_name # "lamp" => close = AllFalse
         /\ already_assembled' = ClearAssembled(already_assembled, env_idxs)
         /\ env_steps' = ClearSteps(env_steps, env_idxs)
         /\ bulb_attrs_set' = (bulb_attrs_set \/ cfg.furniture_name = "lamp")
         /\ moving_bulbs' = ResetMovingBulbs(moving_bulbs, env_idxs)
         /\ hand_bulb_close' = close
         /\ log' = ResetCalls(env_idxs, draws)
         /\ reward' = [kind |-> "unset", val |-> [e \in Envs |-> 0]]
         /\ terminated' = AllFalse
         /\ truncated' = AllFalse
         /\ IF ReadRobotStateRaises
            THEN /\ op' = [name |-> "reset", env_idxs |-> env_idxs, raised |-> "KeyError",
                          action |-> << >>, draws |-> draws]
                 /\ UNCHANGED obs
            ELSE /\ obs' = GetObservation(rel_pose)
                 /\ op' = [name |-> "reset", env_idxs |-> env_idxs, raised |-> "none",
                          action |-> << >>, draws |-> draws]
         /\ UNCHANGED << cfg, last_grasp, grip_sep, ctrl_goal, furnitures,
                         max_force_magnitude, max_torque_magnitude >>

\* reset(env_idxs) with the draws of seed 0.
Reset(env_idxs, rel_pose, close) == ResetWith(env_idxs, rel_pose, close, DrawsOf(0))

\* A direct call of _set_bulb_poses(env_idxs) on the lamp: with an empty index
\* tensor it prints a warning and returns; otherwise it stages the recorded rest
\* poses of env_idxs and pushes them.
SetBulbPosesCall(env_idxs) ==
    /\ cfg.furniture_name = "lamp"
    /\ env_idxs # {} => bulb_attrs_set
    /\ log' = SetBulbPoses(env_idxs)
    /\ op' = [name |-> "_set_bulb_poses", env_idxs |-> env_idxs, raised |-> "none",
              action |-> << >>]
    /\ UNCHANGED << cfg, already_assembled, env_steps, last_grasp, bulb_attrs_set,
                    moving_bulbs, hand_bulb_close, grip_sep, ctrl_goal, obs, reward,
                         terminated,
                    truncated, furnitures, max_force_magnitude,
                         max_torque_magnitude >>

\* What FurnitureRLSimEnv.__init__ raises for its arguments, "none" when it
\* returns: the rotation representation is checked by the base constructor, the
\* furniture name by the force/torque multiplier and assembly-pair tables; the
\* observation keys are not checked (observation_space, which is, is a property
\* the constructor never reads).
ConstructRaises(name, obs_keys, act_rot_repr, randomness) ==
    IF act_rot_repr \notin SupportedRotRepr THEN "ValueError"
    ELSE IF randomness \notin SupportedRandomness THEN "ValueError"
    ELSE IF name \notin SupportedFurniture THEN "ValueError"
    ELSE "none"

\* The state after FurnitureRLSimEnv.__init__ with the given furniture, manual
\* flags, obs_keys, act_rot_repr and randomness; position_only is the furniture's
\* own table.
\* calibration: the values of furniture_bench.config the frames are built from.
ConstructObstacle(name, manual_label, manual_done, position_only, obs_keys, act_rot_repr, randomness, calibration, randomize_obstacle) ==
    /\ cfg = [furniture_name |-> name, manual_label |-> manual_label,
              manual_done |-> manual_done, position_only |-> position_only,
              include_parts_poses |-> (ParseKey("parts_poses", "") \in obs_keys),
              obs_keys |-> obs_keys, act_rot_repr |-> act_rot_repr,
              randomness |-> randomness,
              randomize_obstacle |-> randomize_obstacle,
              ROBOT_HEIGHT |-> calibration.ROBOT_HEIGHT,
              tag_base_from_robot_base |-> calibration.tag_base_from_robot_base]
    /\ already_assembled = NoPairs
    /\ env_steps = [e \in Envs |-> 0]
    /\ last_grasp = [e \in Envs |-> init_last_grasp]
    /\ bulb_attrs_set = FALSE
    /\ moving_bulbs = AllFalse
    /\ hand_bulb_close = AllFalse
    /\ grip_sep = [e \in Envs |-> max_gripper_width]
    /\ ctrl_goal = [e \in Envs |-> [pos |-> << >>, rot |-> << >>,
                                      finger_pos |-> max_gripper_width \div 2,
                                      finger_torque |-> 0]]
    /\ obs = GetObservation([e \in Envs |-> [i \in PairIdx |-> RelPose({}, {})]])
    /\ reward = [kind |-> "unset", val |-> [e \in Envs |-> 0]]
    /\ terminated = AllFalse
    /\ truncated = AllFalse
    /\ log = << >>
    /\ max_force_magnitude = InitialCeilings(randomness).force
    /\ max_torque_magnitude = InitialCeilings(randomness).torque
    /\ furnitures = [e \in Envs |-> {}]
    /\ op = [name |-> "init", env_idxs |-> {},
             raised |-> ConstructRaises(name, obs_keys, act_rot_repr, randomness),
             action |-> << >>]

\* Construction with randomize_obstacle at its default (True).
ConstructCalibrated(name, manual_label, manual_done, position_only, obs_keys, act_rot_repr, randomness, calibration) ==
    ConstructObstacle(name, manual_label, manual_done, position_only, obs_keys,
                      act_rot_repr, randomness, calibration, TRUE)

\* Construction with the calibration of the configuration module.
ConstructFull(name, manual_label, manual_done, position_only, obs_keys, act_rot_repr, randomness) ==
    ConstructCalibrated(name, manual_label, manual_done, position_only, obs_keys,
                        act_rot_repr, randomness, DefaultCalibration)

\* Construction at the lowest randomness level.
ConstructWith(name, manual_label, manual_done, position_only, obs_keys, act_rot_repr) ==
    ConstructFull(name, manual_label, manual_done, position_only, obs_keys, act_rot_repr,
                  "low")

\* Construction with the default rotation representation and with obs_keys
\* that hold parts_poses or not.
Construct(name, manual_label, manual_done, position_only, include_parts_poses) ==
    ConstructWith(name, manual_label, manual_done, position_only,
                  IF include_parts_poses THEN {ParseKey("parts_poses", "")} ELSE {},
                  "rot_6d")

\* Faulty variant of IncrementCeiling: the increment is added without the cap.
IncrementUncapped(old, increment, limit) == old + increment

\* min(old + increment, limit)
IncrementCeiling(old, increment, limit) == Min(old + increment, limit)

\* increment_randomness()
IncrementRandomness ==
    /\ max_force_magnitude' =
          IncrementCeiling(max_force_magnitude, force_increment, force_magnitude_limit)
    /\ max_torque_magnitude' =
          IncrementCeiling(max_torque_magnitude, torque_increment, torque_magnitude_limit)
    /\ log' = << >>
    /\ op' = [name |-> "increment_randomness", env_idxs |-> {}, raised |-> "none",
              action |-> << >>]
    /\ UNCHANGED << cfg, already_assembled, env_steps, last_grasp, bulb_attrs_set,
                    moving_bulbs, hand_bulb_close, grip_sep, ctrl_goal, obs, reward,
                    terminated, truncated, furnitures >>

\* The constructor returned an object.
Constructed == ~(op.name = "init" /\ op.raised # "none")

\* ------------------------------------------------------- input alphabets
Far == RelPose({}, {})
Matched == RelPose({1}, {1})

\* An action with a zero pose part and the given grasp.
ActionWithGrasp(grasp) == [i \in 1 .. (PoseDim + 1) |-> IF i = PoseDim + 1 THEN grasp ELSE 0]

\* The policy keeps the gripper open.
OpenAction == [e \in Envs |-> ActionWithGrasp(act_low)]

FarPoses == [e \in Envs |-> [i \in PairIdx |-> Far]]

ResetSubsets == (SUBSET Envs) \ {{}}

\* ------------------------------------------------- assembly specification
\* The single-pair furniture under every manual flag and the two-pair furniture
\* with the flags off; the physics outcome of every step is free in the relative
\* pose of every pair of every environment.
Init ==
    \/ \E flags \in {<<FALSE, FALSE>>, <<TRUE, FALSE>>, <<FALSE, TRUE>>} :
           Construct("one_leg", flags[1], flags[2], {}, FALSE)
    \/ Construct("lamp", FALSE, FALSE, {}, FALSE)

StepAssembly ==
    \E rel_pose \in [Envs -> [PairIdx -> {Far, Matched}]] :
        Step(OpenAction, rel_pose, AllFalse)

ResetEnvs ==
    \E env_idxs \in ResetSubsets : Reset(env_idxs, FarPoses, AllFalse)

Next == StepAssembly \/ ResetEnvs

Spec == Init /\ [][Next]_vars

\* ----------------------------------------------- claims of the assembly spec
AllAssembled(e) == \A i \in PairIdx : already_assembled[e][i]

ManualOff == ~cfg.manual_label /\ ~cfg.manual_done

\* C1: Assembly latching. An assembly bit of environment e that is set falls
\* only in a reset() whose environment subset contains e: after every step(),
\* whatever the relative poses have become, it is still set.
AssemblyLatched ==
    [][\A e \in Envs : \A i \in PairIdx :
          (already_assembled[e][i] /\ ~already_assembled'[e][i])
              => (op'.name = "reset" /\ e \in op'.env_idxs)]_vars

\* A step that assembled nothing new in an environment whose bit is already set:
\* the bit was set by an earlier step and has survived this one.
AssemblyLatchedWitness ==
    /\ op.name = "step"
    /\ reward.kind = "tensor"
    /\ \E e \in Envs : \E i \in PairIdx :
          already_assembled[e][i] /\ reward.val[e] = 0 /\ env_steps[e] >= 2

\* C3: With manual override off, the reward of environment e is 1 exactly when
\* at least one pair of e went from UNASSEMBLED to ASSEMBLED in that step, and 0
\* otherwise (1, not the number of pairs that went over).
RewardIsIndicator ==
    [][(op'.name = "step" /\ ManualOff) =>
          /\ reward'.kind = "tensor"
          /\ \A e \in Envs :
                reward'.val[e] =
                    IF \E i \in PairIdx : ~already_assembled[e][i] /\ already_assembled'[e][i]
                    THEN 1
                    ELSE 0]_vars

\* Both pairs of a two-pair furniture went over in the first step of an episode,
\* and the reward is 1.
RewardIsIndicatorWitness ==
    /\ op.name = "step"
    /\ ManualOff
    /\ Cardinality(PairIdx) = 2
    /\ \E e \in Envs : env_steps[e] = 1 /\ AllAssembled(e) /\ reward.val[e] = 1

\* C4: With manual override off, terminated is true for e exactly when every
\* required pair of e is ASSEMBLED after that step's reward update.
TerminatedIffAllAssembled ==
    (op.name = "step" /\ ManualOff) =>
        \A e \in Envs : terminated[e] = AllAssembled(e)

\* One environment has terminated while another, with one of its two pairs
\* assembled, has not.
TerminatedIffAllAssembledWitness ==
    /\ op.name = "step"
    /\ ManualOff
    /\ \E e \in Envs : terminated[e]
    /\ \E e \in Envs : ~terminated[e] /\ \E i \in PairIdx : already_assembled[e][i]

\* C5 as stated: the step made at counter max_env_steps - 1 returns truncated,
\* every step made at a smaller counter does not (the counter has gone up by one
\* since the call).
TruncationBoundaryAsStated ==
    op.name = "step" =>
        \A e \in Envs :
            /\ (env_steps[e] - 1 = max_env_steps - 1) => truncated[e]
            /\ (env_steps[e] - 1 < max_env_steps - 1) => ~truncated[e]

\* C5, amended: with manual_done off, the step made at counter max_env_steps - 1
\* returns truncated = True for e and every step made at a smaller counter
\* returns truncated = False for e, whether or not e's pairs are assembled.
TruncationBoundary ==
    (op.name = "step" /\ ~cfg.manual_done) =>
        \A e \in Envs :
            /\ (env_steps[e] - 1 = max_env_steps - 1) => truncated[e]
            /\ (env_steps[e] - 1 < max_env_steps - 1) => ~truncated[e]

\* In one step an unassembled environment at the boundary is truncated and a
\* fully assembled one below the boundary is not.
TruncationBoundaryWitness ==
    /\ op.name = "step"
    /\ ~cfg.manual_done
    /\ \E e \in Envs : truncated[e] /\ env_steps[e] = max_env_steps /\ ~AllAssembled(e)
    /\ \E e \in Envs : ~truncated[e] /\ env_steps[e] < max_env_steps /\ AllAssembled(e)

\* C6: In manual-override mode (manual_label or manual_done set) every step
\* returns reward zero and terminated and truncated false for every environment.
ManualOverrideSuppressesOutput ==
    (op.name = "step" /\ (cfg.manual_label \/ cfg.manual_done)) =>
        /\ reward.kind = "tensor"
        /\ \A e \in Envs : reward.val[e] = 0 /\ ~terminated[e] /\ ~truncated[e]

\* C9: reset(S), S not empty, clears the assembly bits and the step counter of
\* every environment in S and leaves those of every other environment unchanged.
ResetFrame ==
    [][op'.name = "reset" =>
          /\ op'.env_idxs # {}
          /\ \A e \in Envs :
                IF e \in op'.env_idxs
                THEN /\ \A i \in PairIdx : ~already_assembled'[e][i]
                     /\ env_steps'[e] = 0
                ELSE /\ already_assembled'[e] = already_assembled[e]
                     /\ env_steps'[e] = env_steps[e]]_vars

\* A reset of a strict subset: an environment outside it keeps a set bit and a
\* counter above 0.
ResetFrameWitness ==
    /\ op.name = "reset"
    /\ \E e \in Envs \ op.env_idxs :
          env_steps[e] > 0 /\ \E i \in PairIdx : already_assembled[e][i]

\* C11: is_success() reports environment e as successful exactly when all
\* required pairs of e are ASSEMBLED in already_assembled, in every reachable
\* state.
IsSuccessMatchesAssembly ==
    \A e \in Envs : is_success[e] = AllAssembled(e)

\* -------------------------------------------------- gripper specification
\* The grasp components a policy sends: below the action range, at the
\* hysteresis margin on both sides, zero, and just above the margin.
GraspInputs == {-2000, -19, 0, 19, 20}

InitGrip == Construct("one_leg", FALSE, FALSE, {}, FALSE)

StepGrasp ==
    \E grasp \in [Envs -> GraspInputs] :
        Step([e \in Envs |-> ActionWithGrasp(grasp[e])], FarPoses, AllFalse)

ResetAll == Reset(Envs, FarPoses, AllFalse)

NextGrip == StepGrasp \/ ResetAll

SpecGrip == InitGrip /\ [][NextGrip]_vars

\* C2: Gripper debounce. In a sequence of step() calls, a call whose grasp has
\* magnitude not above grasp_margin (zero included) commands the gripper width
\* that the call before it commanded, whatever the signs.
GripperDebounce ==
    [][(op.name = "step" /\ op'.name = "step") =>
          \A e \in Envs :
              Abs(last_grasp'[e]) <= grasp_margin => grip_sep'[e] = grip_sep[e]]_vars

\* ------------------------------------------------ lamp bulb specification
InitBulb == Construct("lamp", FALSE, FALSE, {}, FALSE)

StepBulb ==
    \E close \in [Envs -> BOOLEAN] : Step(OpenAction, FarPoses, close)

ResetBulb ==
    \E env_idxs \in ResetSubsets :
        \E close \in [Envs -> BOOLEAN] : Reset(env_idxs, FarPoses, close)

NextBulb == StepBulb \/ ResetBulb

SpecBulb == InitBulb /\ [][NextBulb]_vars

\* The bulb of e is released: its hand came close in a step, or its counter has
\* passed half of max_env_steps.
Released(e) == moving_bulbs[e] \/ 2 * env_steps[e] > max_env_steps

IsReset(o, e) == o.name = "reset" /\ e \in o.env_idxs

\* Some call of the trace pushes the bulb rest pose of e.
BulbPushed(e, calls) ==
    \E k \in 1 .. Len(calls) : calls[k].actors = "bulb" /\ e \in calls[k].envs

\* Every physics substep of the trace comes right after a push of the bulb rest pose of e.
BulbHeldEverySubstep(e, calls) ==
    \A k \in 1 .. Len(calls) :
        calls[k].call = "simulate" =>
            k > 1 /\ calls[k - 1].actors = "bulb" /\ e \in calls[k - 1].envs

\* C7: Lamp bulb one-way release. Once the bulb of e is released, no operation
\* other than a reset() containing e pushes the bulb rest pose of e or takes the
\* release back; a reset() of a subset without e does not re-engage the hold.
BulbReleaseOneWay ==
    [][\A e \in Envs :
          (Released(e) /\ ~IsReset(op', e)) =>
              /\ ~BulbPushed(e, log')
              /\ moving_bulbs'[e] \/ 2 * env_steps'[e] > max_env_steps]_vars

\* C8: Lamp bulb hold is per environment. In every step(), an environment whose
\* counter is not past half of max_env_steps, whose bulb is not released and
\* whose hand is not close to the bulb has its bulb rest pose pushed before each
\* physics substep, whatever the counters of the other environments are.
BulbHeldPerEnvironment ==
    [][op'.name = "step" =>
          \A e \in Envs :
              (2 * env_steps[e] <= max_env_steps /\ ~moving_bulbs[e] /\ ~hand_bulb_close[e])
                  => BulbHeldEverySubstep(e, log')]_vars

\* ------------------------------------------- observed-poses specification
\* The single-pair furniture with parts_poses among obs_keys and manual_done off,
\* with and without manual_label: the observation shows which environments are at
\* an admissible pose.
InitPoses ==
    \E manual_label \in BOOLEAN :
        Construct("one_leg", manual_label, FALSE, {}, TRUE)

StepPoses ==
    \E rel_pose \in [Envs -> [PairIdx -> {Far, Matched}]] :
        Step(OpenAction, rel_pose, AllFalse)

ResetPoses ==
    \E env_idxs \in ResetSubsets : Reset(env_idxs, FarPoses, AllFalse)

NextPoses == StepPoses \/ ResetPoses

SpecPoses == InitPoses /\ [][NextPoses]_vars

\* The relative pose is within both tolerances of one and the same target.
AtAdmissiblePose(rp) == rp.pos \cap rp.rot # {}

InitEmpty == Construct("lamp", FALSE, FALSE, {}, FALSE)

StepEmpty ==
    \E close \in [Envs -> BOOLEAN] : Step(OpenAction, FarPoses, close)

ResetAnySubset ==
    \E env_idxs \in SUBSET Envs : Reset(env_idxs, FarPoses, AllFalse)

SetBulbPosesAnySubset ==
    \E env_idxs \in SUBSET Envs : SetBulbPosesCall(env_idxs)

NextEmpty == StepEmpty \/ ResetAnySubset \/ SetBulbPosesAnySubset

SpecEmpty == InitEmpty /\ [][NextEmpty]_vars

\* C12: a bulb-rest update with zero environments and a reset() with an empty
\* environment subset both return without raising, change no buffer and issue
\* no indexed push to the engine.
EmptyBatchIsNoOp ==
    [][(op'.name \in {"reset", "_set_bulb_poses"} /\ op'.env_idxs = {}) =>
          /\ op'.raised = "none"
          /\ log' = << >>
          /\ UNCHANGED << already_assembled, env_steps, moving_bulbs, bulb_attrs_set, obs >>]_vars

\* ------------------------------------------------ configuration specification
\* Construction with supported and unsupported values of the furniture name, the
\* rotation representation and the observation keys, then steps and resets of
\* the objects the constructor returned.
ObsKeyInputs ==
    {ParseKey("parts_poses", ""), ParseKey("robot_state", "ee_pos"),
     ParseKey("robot_state", "foo"), ParseKey("foo", "")}

InitConfig ==
    \E name \in {"one_leg", "desk"}, act_rot_repr \in {"rot_6d", "euler"},
       obs_keys \in SUBSET ObsKeyInputs :
        ConstructWith(name, FALSE, FALSE, {}, obs_keys, act_rot_repr)

StepConfig ==
    /\ Constructed
    /\ \E rel_pose \in [Envs -> [PairIdx -> {Far, Matched}]] :
           Step(OpenAction, rel_pose, AllFalse)

ResetConfig ==
    /\ Constructed
    /\ \E env_idxs \in ResetSubsets : Reset(env_idxs, FarPoses, AllFalse)

NextConfig == StepConfig \/ ResetConfig

SpecConfig == InitConfig /\ [][NextConfig]_vars

\* C13: an unsupported rotation representation, an unsupported observation key
\* and a furniture name without multiplier or assembly-pair table each make the
\* constructor raise, and no reset() or step() of a constructed environment
\* raises because of such a value.
ConfigErrorsAtConstruction ==
    /\ (op.name = "init" /\ (\/ cfg.act_rot_repr \notin SupportedRotRepr
                             \/ \E k \in cfg.obs_keys : ~SupportedObsKey(k)
                             \/ cfg.furniture_name \notin SupportedFurniture))
          => op.raised # "none"
    /\ op.name \in {"step", "reset"} => op.raised = "none"

\* ------------------------------------------------- action-range specification
\* Every rotation representation, with actions whose position, rotation and
\* grasp parts lie inside, on and outside the limits of the action space.
ActionInputs ==
    { [i \in 1 .. (PoseDim + 1) |->
          IF i <= 3 THEN parts[1] ELSE IF i <= PoseDim THEN parts[2] ELSE parts[3]] :
      parts \in { <<-1500, 1200, 10>>, <<300, -700, -2000>>,
                  <<1000, -1000, 1000>>, <<2000, 300, 3000>> } }

InitClamp ==
    \E act_rot_repr \in SupportedRotRepr :
        ConstructWith("one_leg", FALSE, FALSE, {}, {}, act_rot_repr)

StepClamp ==
    \E action \in [Envs -> ActionInputs] : Step(action, FarPoses, AllFalse)

ResetClamp == Reset(Envs, FarPoses, AllFalse)

NextClamp == StepClamp \/ ResetClamp

SpecClamp == InitClamp /\ [][NextClamp]_vars

\* The value the step used for a raw component: the nearest value of [-1, 1].
UsedFor(raw, used) ==
    /\ raw < act_low => used = act_low
    /\ raw > act_high => used = act_high
    /\ (act_low <= raw /\ raw <= act_high) => used = raw

\* C14: step() never rejects an out-of-range action; the position delta, the
\* rotation encoding and the grasp command it uses, the value stored as
\* last_grasp included, are the components clamped to [-1, 1], and a component
\* already inside [-1, 1] is used unchanged.
ActionClamped ==
    [][op'.name = "step" =>
          /\ op'.raised = "none"
          /\ \A e \in Envs :
                LET raw == op'.action[e]
                IN  /\ Len(ctrl_goal'[e].pos) = 3
                    /\ Len(ctrl_goal'[e].rot) = PoseDim - 3
                    /\ \A i \in 1 .. 3 : UsedFor(raw[i], ctrl_goal'[e].pos[i])
                    /\ \A i \in 4 .. PoseDim : UsedFor(raw[i], ctrl_goal'[e].rot[i - 3])
                    /\ UsedFor(raw[PoseDim + 1], last_grasp'[e])
                    /\ grip_sep'[e] = GripSep(last_grasp'[e], last_grasp[e])]_vars

\* A step whose action has components below, inside and above the range: each
\* was used at its clamped value.
ActionClampedWitness ==
    /\ op.name = "step"
    /\ op.raised = "none"
    /\ \E e \in Envs :
          /\ op.action[e][1] < act_low /\ ctrl_goal[e].pos[1] = act_low
          /\ op.action[e][4] > act_high /\ ctrl_goal[e].rot[1] = act_high
          /\ op.action[e][PoseDim + 1] = 10 /\ last_grasp[e] = 10

\* ------------------------------------------------------ claims on reset pushes
\* The calls of a trace with the given engine function.
CallsOf(calls, name) == SelectSeq(calls, LAMBDA c : c.call = name)

\* The index list holds each element of the set once and nothing else.
ListsExactly(idx, set) ==
    /\ {idx[k] : k \in 1 .. Len(idx)} = set
    /\ Len(idx) = Cardinality(set)

PartAndObstacleActors(S) ==
    {Actor(e, n) : e \in S,
                   n \in {obstacle_names[i] : i \in 1 .. Len(obstacle_names)}
                      \cup {part_names(cfg.furniture_name)[i] :
                                i \in 1 .. Len(part_names(cfg.furniture_name))}}

\* C15 as stated: reset(S) issues one indexed root-state push, naming exactly the
\* part and obstacle actors of the environments of S, and one indexed DOF-state
\* push, naming exactly the robot actors of S.
ResetBatchedAsStated ==
    [][(op'.name = "reset" /\ op'.raised = "none") =>
          LET root == CallsOf(log', "set_actor_root_state_tensor_indexed")
              dof == CallsOf(log', "set_dof_state_tensor_indexed")
          IN  /\ Len(root) = 1
              /\ ListsExactly(root[1].idx, PartAndObstacleActors(op'.env_idxs))
              /\ Len(dof) = 1
              /\ ListsExactly(dof[1].idx, {Actor(e, "franka") : e \in op'.env_idxs})]_vars

\* C15, amended: reset(S) commits the part and obstacle root states of S with one
\* indexed root-state push naming exactly the part and obstacle actors of S, and
\* the robot joint state with one indexed DOF-state push naming exactly the
\* robot actors of S; for the lamp one more indexed root-state push follows,
\* naming exactly the bulb actors of S. No push is issued per environment.
ResetBatched ==
    [][(op'.name = "reset" /\ op'.raised = "none") =>
          LET root == CallsOf(log', "set_actor_root_state_tensor_indexed")
              dof == CallsOf(log', "set_dof_state_tensor_indexed")
          IN  /\ Len(root) = (IF cfg.furniture_name = "lamp" THEN 2 ELSE 1)
              /\ ListsExactly(root[1].idx, PartAndObstacleActors(op'.env_idxs))
              /\ cfg.furniture_name = "lamp" =>
                    ListsExactly(root[2].idx, {Actor(e, "lamp_bulb") : e \in op'.env_idxs})
              /\ Len(dof) = 1
              /\ ListsExactly(dof[1].idx, {Actor(e, "franka") : e \in op'.env_idxs})]_vars

\* A reset of several environments at once: one root-state push carrying the
\* obstacle and part actors of all of them.
ResetBatchedWitness ==
    /\ op.name = "reset"
    /\ op.raised = "none"
    /\ Cardinality(op.env_idxs) > 1
    /\ Len(CallsOf(log, "set_actor_root_state_tensor_indexed")) = 1
    /\ Len(CallsOf(log, "set_actor_root_state_tensor_indexed")[1].idx)
          = Cardinality(op.env_idxs) * (Len(obstacle_names) + Len(part_names(cfg.furniture_name)))

\* ------------------------------------------------- curriculum specification
\* Every randomness level, with the curriculum increment called between resets
\* of the whole batch.
InitCurriculum ==
    \E randomness \in SupportedRandomness :
        ConstructFull("one_leg", FALSE, FALSE, {}, {}, "rot_6d", randomness)

ResetCurriculum == Reset(Envs, FarPoses, AllFalse)

NextCurriculum == IncrementRandomness \/ ResetCurriculum

SpecCurriculum == InitCurriculum /\ [][NextCurriculum]_vars

\* C16: each increment_randomness() call sets the force ceiling to
\* min(old + 0.01, 1) and the torque ceiling to min(old + 0.0005, 0.05); over any
\* sequence of calls both ceilings never decrease and never exceed 1 and 0.05,
\* every call raises a ceiling that is below its cap, and a ceiling at its cap
\* stays there.
CurriculumIncrement ==
    [][/\ op'.name = "increment_randomness" =>
            /\ (max_force_magnitude + force_increment <= force_magnitude_limit
                    => max_force_magnitude' = max_force_magnitude + force_increment)
            /\ (max_force_magnitude + force_increment > force_magnitude_limit
                    => max_force_magnitude' = force_magnitude_limit)
            /\ (max_torque_magnitude + torque_increment <= torque_magnitude_limit
                    => max_torque_magnitude' = max_torque_magnitude + torque_increment)
            /\ (max_torque_magnitude + torque_increment > torque_magnitude_limit
                    => max_torque_magnitude' = torque_magnitude_limit)
            /\ (max_force_magnitude < force_magnitude_limit
                    => max_force_magnitude' > max_force_magnitude)
            /\ (max_torque_magnitude < torque_magnitude_limit
                    => max_torque_magnitude' > max_torque_magnitude)
       /\ max_force_magnitude' >= max_force_magnitude
       /\ max_torque_magnitude' >= max_torque_magnitude
       /\ max_force_magnitude' <= force_magnitude_limit
       /\ max_torque_magnitude' <= torque_magnitude_limit
       /\ (max_force_magnitude = force_magnitude_limit
               => max_force_magnitude' = force_magnitude_limit)
       /\ (max_torque_magnitude = torque_magnitude_limit
               => max_torque_magnitude' = torque_magnitude_limit)]_vars

\* Both ceilings at their caps, after an increment that left them there.
CurriculumIncrementWitness ==
    /\ op.name = "increment_randomness"
    /\ max_force_magnitude = force_magnitude_limit
    /\ max_torque_magnitude = torque_magnitude_limit

\* ------------------------------------------------ perturbation specification
\* The lamp, stepped with sample_perturbations set and with the perturbation
\* called directly at zero ceilings. The selection mask is empty, full, a single
\* part instance or all but one; the draws run through the quarter turns of the
\* force angle, magnitudes of 0, 50 and 99 percent of the ceiling and torque
\* brackets of -100, 0 and 98 percent, shifted from part to part by a seed.
MaskInputs ==
    {{}, PartInstances}
    \cup {{b} : b \in PartInstances}
    \cup {PartInstances \ {b} : b \in PartInstances}

SampleInputs ==
    { [on |-> TRUE, mask |-> mask,
       theta |-> [b \in PartInstances |-> (seed + b[1]) % 4],
       mag |-> [b \in PartInstances |-> DrawOf(<< 99, 50, 0 >>, seed + b[1])],
       ztorque |-> [b \in PartInstances |-> DrawOf(<< -100, 98, 0 >>, seed + b[1])]] :
      mask \in MaskInputs, seed \in 0 .. 3 }

InitPerturb == Construct("lamp", FALSE, FALSE, {}, FALSE)

StepPerturb ==
    \E sample \in SampleInputs : StepWith(OpenAction, FarPoses, AllFalse, sample)

PerturbZero ==
    \E sample \in SampleInputs : RandomPerturbationCall(0, 0, sample)

ResetPerturb == Reset(Envs, FarPoses, AllFalse)

NextPerturb == StepPerturb \/ PerturbZero \/ ResetPerturb

SpecPerturb == InitPerturb /\ [][NextPerturb]_vars

\* The perturbation call of the last operation, when it made one.
Perturbed ==
    \/ op.name = "_random_perturbation_of_parts"
    \/ op.name = "step" /\ op.raised = "none" /\ op.sample.on

SentForces == log[Len(log)].forces
SentTorques == log[Len(log)].torques

\* C17: a perturbation invoked with max_force_magnitude = 0 and
\* max_torque_magnitude = 0 sends force and torque tensors that are zero in every
\* component for every rigid body, for every selection mask and every draw.
ZeroCeilingsSendZero ==
    (op.name = "_random_perturbation_of_parts" /\ op.max_force = 0 /\ op.max_torque = 0) =>
        /\ log[Len(log)].call = "apply_rigid_body_force_tensors"
        /\ \A b \in RigidBodies :
              SentForces[b] = << 0, 0, 0 >> /\ SentTorques[b] = << 0, 0, 0 >>

\* A call at zero ceilings with every part instance selected and draws that are
\* not zero.
ZeroCeilingsSendZeroWitness ==
    /\ op.name = "_random_perturbation_of_parts"
    /\ op.max_force = 0 /\ op.max_torque = 0
    /\ op.sample.mask = PartInstances
    /\ \E b \in PartInstances : op.sample.mag[b] > 0 /\ op.sample.ztorque[b] # 0
    /\ \A b \in RigidBodies : SentForces[b] = << 0, 0, 0 >>

\* C18: in every rollout perturbation call the force and torque sent for a rigid
\* body that is not a selected part instance are zero, a selected part gets a
\* force with zero z component and a torque with zero x and y components, and
\* nothing of the tensors sent by an earlier call is left in them.
PerturbationStateless ==
    Perturbed =>
        /\ log[Len(log)].call = "apply_rigid_body_force_tensors"
        /\ DOMAIN SentForces = RigidBodies
        /\ DOMAIN SentTorques = RigidBodies
        /\ \A b \in RigidBodies \ op.sample.mask :
              SentForces[b] = << 0, 0, 0 >> /\ SentTorques[b] = << 0, 0, 0 >>
        /\ \A b \in op.sample.mask :
              /\ SentForces[b][3] = 0
              /\ SentTorques[b][1] = 0
              /\ SentTorques[b][2] = 0

\* A rollout step whose perturbation selected one part instance, which got a
\* force and a torque, while the other parts of the same environment got none.
PerturbationStatelessWitness ==
    /\ op.name = "step"
    /\ op.raised = "none"
    /\ op.sample.on
    /\ \E b \in PartInstances :
          /\ op.sample.mask = {b}
          /\ SentForces[b] # << 0, 0, 0 >>
          /\ SentTorques[b][3] # 0
          /\ \E c \in PartInstances \ {b} : c[1] = b[1] /\ SentForces[c] = << 0, 0, 0 >>

\* ------------------------------------------------------ frames specification
\* The four frame conversions applied to pose matrices, for calibrations with
\* and without a rotation between tag and robot base. Poses: the four rotations
\* above at every position of a grid of PoseRange steps of 100 around the origin,
\* at the height of the table surface.
PoseRange == 1

CalibrationInputs ==
    {DefaultCalibration,
     [ROBOT_HEIGHT |-> 0, tag_base_from_robot_base |-> Hom(Identity3, << 0, 0, 0 >>)],
     [ROBOT_HEIGHT |-> 0, tag_base_from_robot_base |-> Hom(RotZ90, << 230, 0, 0 >>)],
     [ROBOT_HEIGHT |-> 15, tag_base_from_robot_base |-> Hom(RotX180, << -70, 120, 15 >>)]}

PoseInputs ==
    {Hom(rot, << 100 * x, 100 * y, table_pos.z + table_half_width >>) :
        rot \in {Identity3, RotZ90, RotX180, RotX180Z90},
        x \in (-PoseRange) .. PoseRange,
        y \in (-PoseRange) .. PoseRange}

InitFrames ==
    \E calibration \in CalibrationInputs :
        ConstructCalibrated("one_leg", FALSE, FALSE, {}, {}, "rot_6d", "low", calibration)

AprilToSim ==
    \E mat \in PoseInputs :
        ConvertCall("april_coord_to_sim_coord", mat, april_coord_to_sim_coord(mat))

SimToApril ==
    \E mat \in PoseInputs :
        ConvertCall("sim_coord_to_april_coord", mat, sim_coord_to_april_coord(mat))

SimToRobot ==
    \E mat \in PoseInputs :
        ConvertCall("sim_coord_to_robot_coord", mat, sim_coord_to_robot_coord(mat))

AprilToRobot ==
    \E mat \in PoseInputs :
        ConvertCall("april_coord_to_robot_coord", mat, april_coord_to_robot_coord(mat))

NextFrames == AprilToSim \/ SimToApril \/ SimToRobot \/ AprilToRobot

SpecFrames == InitFrames /\ [][NextFrames]_vars

\* Tag to simulator and back gives the pose again.
TagRoundTrip ==
    op.name = "april_coord_to_sim_coord" =>
        sim_coord_to_april_coord(op.result) = op.arg

\* The source has no conversion out of the robot base frame. The way back that
\* its transforms determine: undo april_coord_to_robot_coord, then
\* april_coord_to_sim_coord.
RobotToSimThroughTag(robot_coord_mat) ==
    april_coord_to_sim_coord(MatMul(inv(april_to_robot_mat), robot_coord_mat))

FrameTransformsConsistent ==
    op.name = "sim_coord_to_robot_coord" =>
        op.result = april_coord_to_robot_coord(sim_coord_to_april_coord(op.arg))

\* ------------------------------------------- transition-rule specification
\* The round table, whose second pair is position-only, with parts_poses in the
\* observation. In each step one environment is moved: each of its pairs is far
\* from every target, similar in position to target 1 and in rotation to target
\* 2 only, similar in position to target 2 only, or similar to target 2 in both.
RuleInputs == {Far, RelPose({1}, {2}), RelPose({2}, {}), RelPose({1, 2}, {2})}

InitRule == Construct("round_table", FALSE, FALSE, {<< 1, 2 >>}, TRUE)

StepRule ==
    \E moved \in Envs : \E rp \in [PairIdx -> RuleInputs] :
        Step(OpenAction, [e \in Envs |-> IF e = moved THEN rp ELSE FarPoses[e]], AllFalse)

ResetRule == Reset(Envs, FarPoses, AllFalse)

NextRule == StepRule \/ ResetRule

SpecRule == InitRule /\ [][NextRule]_vars

\* Some admissible target of pair i matches the relative pose rp: in position
\* and, unless the pair is position-only, in rotation.
TargetMatches(i, rp) ==
    \E p \in Poses :
        /\ p \in rp.pos
        /\ pairs_to_assemble(cfg.furniture_name)[i] \in cfg.position_only \/ p \in rp.rot

\* C22: in a step, pair i of environment e goes from UNASSEMBLED to ASSEMBLED
\* exactly when it was UNASSEMBLED before the call and some admissible target of
\* the pair matches the relative pose in position and, unless the pair is
\* position-only, in rotation for that same target.
TransitionRule ==
    [][(op'.name = "step" /\ op'.raised = "none") =>
          \A e \in Envs : \A i \in PairIdx :
              (~already_assembled[e][i] /\ already_assembled'[e][i])
                  <=> (~already_assembled[e][i]
                       /\ TargetMatches(i, obs'.parts_poses[e][i]))]_vars

\* A step after which the position-only pair of an environment is assembled on
\* a position match without any rotation match, while its other pair, similar
\* in position to one target and in rotation to another, is not.
TransitionRuleWitness ==
    /\ op.name = "step"
    /\ \E e \in Envs :
          /\ obs.parts_poses[e][2] = RelPose({2}, {})
          /\ already_assembled[e][2]
          /\ obs.parts_poses[e][1] = RelPose({1}, {2})
          /\ ~already_assembled[e][1]
          /\ reward.val[e] = 1

\* ------------------------------------------------- claims on the call order
\* The positions of the calls of one name in a trace.
At(calls, name) == {k \in 1 .. Len(calls) : calls[k].call = name}

RefreshNames ==
    {"refresh_dof_state_tensor", "refresh_dof_force_tensor",
     "refresh_rigid_body_state_tensor", "refresh_jacobian_tensors"}

TargetNames == {"set_dof_position_target_tensor", "set_dof_actuation_force_tensor"}

\* C23: every step performs one IK solve and sets the arm and gripper targets
\* for all environments once, then runs exactly sim_steps physics substeps with
\* no further target set, then refreshes the DOF, force, rigid-body and Jacobian
\* buffers, and only after that refresh computes the observation, the reward and
\* the done flags.
StepPipelineOrder ==
    (op.name = "step" /\ op.raised = "none") =>
        /\ Cardinality(At(log, "step_ctrl")) = 1
        /\ \A n \in TargetNames :
              /\ Cardinality(At(log, n)) = 1
              /\ \A k \in At(log, n) :
                    /\ log[k].envs = Envs
                    /\ \A i \in At(log, "step_ctrl") : i < k
                    /\ \A j \in At(log, "simulate") : k < j
        /\ Cardinality(At(log, "simulate")) = sim_steps
        /\ \A n \in RefreshNames :
              /\ Cardinality(At(log, n)) = 1
              /\ \A k \in At(log, n) :
                    /\ \A j \in At(log, "simulate") : j < k
                    /\ \A m \in {"get_observation", "_reward", "_done"} :
                          /\ Cardinality(At(log, m)) = 1
                          /\ \A r \in At(log, m) : k < r

\* A lamp step that held the bulb of some environment at every substep.
StepPipelineOrderWitness ==
    /\ op.name = "step"
    /\ op.raised = "none"
    /\ cfg.furniture_name = "lamp"
    /\ \E e \in Envs : BulbPushed(e, log)
    /\ Cardinality(At(log, "simulate")) = sim_steps
    /\ At(log, "get_observation") # {}

\* The indexed root-state and DOF-state pushes, and the reads of engine-derived
\* quantities.
IsPush(c) ==
    c.call \in {"set_actor_root_state_tensor_indexed", "set_dof_state_tensor_indexed"}

IsRead(c) == c.actors \in {"rb_states", "jacobian"}

\* Every read of a trace that follows a push comes after a physics step that
\* follows the last push before it and, after that step, each of the four
\* refreshes.
RefreshedBeforeReads(calls) ==
    LET pushes == {j \in 1 .. Len(calls) : IsPush(calls[j])}
        reads == {k \in 1 .. Len(calls) : IsRead(calls[k])}
        steps == At(calls, "simulate")
        refreshes == [n \in RefreshNames |-> At(calls, n)]
    IN  \A k \in reads :
            LET before == {j \in pushes : j < k}
            IN  before # {} =>
                    LET last == CHOOSE j \in before : \A i \in before : i <= j
                    IN  \E s \in steps :
                            /\ last < s
                            /\ \A n \in RefreshNames :
                                  \E r \in refreshes[n] : s < r /\ r < k

\* C24: in every sequence of reset() and step() calls, after an indexed
\* root-state or DOF-state push a physics step and the buffer refresh happen
\* before the next read of an engine-derived quantity, within the call and from
\* one call to the next.
PushThenRefresh ==
    [][RefreshedBeforeReads(log \o log')]_vars

\* A lamp reset of some environments: the bulb rest poses are recorded after the
\* part push and pushed again before the observation is built.
PushThenRefreshWitness ==
    /\ op.name = "reset"
    /\ op.raised = "none"
    /\ \E k \in At(log, "lb_rest_poses") : \E j \in 1 .. Len(log) :
          /\ j > k
          /\ IsPush(log[j])
          /\ \E r \in At(log, "get_observation") : j < r

\* ------------------------------------------- reset-randomization specification
\* A table-class and a factory-class furniture at the lowest and the highest
\* randomness level, with and without obstacle randomization: resets of every
\* non-empty subset under four patterns of draws, and steps that open or close
\* the gripper.
InitRandom ==
    \E name \in {"one_leg", "factory_peg_hole"} :
        \E randomness \in {"low", "high"} : \E randomize_obstacle \in BOOLEAN :
            ConstructObstacle(name, FALSE, FALSE, {}, {}, "rot_6d", randomness,
                              DefaultCalibration, randomize_obstacle)

ResetDrawn ==
    \E env_idxs \in ResetSubsets : \E seed \in 0 .. 3 :
        ResetWith(env_idxs, FarPoses, AllFalse, DrawsOf(seed))

StepRandom ==
    \E grasp \in {act_low, act_high} :
        Step([e \in Envs |-> ActionWithGrasp(grasp)], FarPoses, AllFalse)

NextRandom == ResetDrawn \/ StepRandom

SpecRandom == InitRandom /\ [][NextRandom]_vars

\* The root-state push and the force call of the reset that was the last operation.
ResetPush == CallsOf(log, "set_actor_root_state_tensor_indexed")[1]

ResetForces == CallsOf(log, "apply_rigid_body_force_tensors")[1]

DidReset == op.name = "reset" /\ op.raised = "none"

\* C25: at reset every part of every environment of the subset is placed at its
\* canonical pose plus an in-plane position offset with zero z, drawn uniformly
\* from a small range for factory-class furniture and from a larger range for
\* all other furniture; factory-class parts are also rotated about the vertical
\* axis only, the parts of other furniture keep the canonical orientation.
PartPoseRandomization ==
    DidReset =>
        \A e \in op.env_idxs : \A i \in PartIdx :
            LET a == Actor(e, part_names(cfg.furniture_name)[i])
                pos == ResetPush.root_pos[a]
                yaw == ResetPush.root_quat[a]
                draw == op.draws.part_pos[e][i]
            IN  /\ pos[3] = 0
                /\ IF IsFactory
                   THEN /\ Abs(pos[1]) <= factory_pos_range
                        /\ Abs(pos[2]) <= factory_pos_range
                        /\ yaw[1] = 0 /\ yaw[2] = 0
                   ELSE /\ \E range \in (factory_pos_range + 1) .. 1000 :
                              /\ pos[1] = Scale(draw[1], range)
                              /\ pos[2] = Scale(draw[2], range)
                        /\ yaw = << 0, 0, 0 >>

\* The obstacle offset maxima of the three randomness levels.
StatedObstacleMax ==
    IF cfg.randomness = "low" THEN 20 ELSE IF cfg.randomness = "med" THEN 40 ELSE 60

ResetForcesConfined ==
    [][(op'.name = "reset" /\ op'.raised = "none") =>
          LET sent == CallsOf(log', "apply_rigid_body_force_tensors")
          IN  /\ Len(sent) = 1
              /\ \A b \in RigidBodies \ PartActors(op'.env_idxs) :
                    /\ sent[1].forces[b] = << 0, 0, 0 >>
                    /\ sent[1].torques[b] = << 0, 0, 0 >>
              /\ UNCHANGED << last_grasp, max_force_magnitude, max_torque_magnitude >>]_vars

\* A reset of a proper subset after the gripper was closed: a part of the subset
\* got a force, the parts outside it got none, last_grasp is still the closing
\* command.
ResetForcesConfinedWitness ==
    /\ DidReset
    /\ op.env_idxs # Envs
    /\ \E b \in PartActors(op.env_idxs) : ResetForces.forces[b] # << 0, 0, 0 >>
    /\ \A b \in PartActors(Envs \ op.env_idxs) : ResetForces.forces[b] = << 0, 0, 0 >>
    /\ \A e \in Envs : last_grasp[e] = act_high

\* ------------------------------------------------- claims on the counters
\* one_leg with every operation that could touch the step counters: step,
\* reset of a subset, noop, is_success and increment_randomness.
MaxIncrements == 2

MatchedPoses == [e \in Envs |-> [i \in PairIdx |-> Matched]]

InitCounter == ConstructFull("one_leg", FALSE, FALSE, {}, {}, "rot_6d", "high")

StepCounter ==
    \E rel_pose \in {FarPoses, MatchedPoses} : Step(OpenAction, rel_pose, AllFalse)

ResetCounter ==
    \E env_idxs \in SUBSET Envs \ {{}} : Reset(env_idxs, FarPoses, AllFalse)

NoopCounter == Noop(FarPoses, AllFalse)

\* increment_randomness, called at most MaxIncrements times.
IncrementCounter ==
    /\ max_force_magnitude
          < InitialCeilings(cfg.randomness).force + MaxIncrements * force_increment
    /\ IncrementRandomness

NextCounter ==
    StepCounter \/ ResetCounter \/ NoopCounter \/ IsSuccessCall \/ IncrementCounter

SpecCounter == InitCounter /\ [][NextCounter]_vars

\* C27: the counter of every environment is zero after construction; a step
\* that returns adds exactly 1 to the counter of every environment, terminated
\* and truncated ones included; a reset zeroes the counters of its subset and
\* leaves the others; noop, is_success and increment_randomness change no
\* counter. Hence env_steps[e] is the number of steps since the last reset
\* whose subset held e.
StepCounterBookkeeping ==
    /\ (op.name = "init" => \A e \in Envs : env_steps[e] = 0)
    /\ [][/\ (op'.name = "step" /\ op'.raised = "none")
                => \A e \in Envs : env_steps'[e] = env_steps[e] + 1
          /\ (op'.name = "reset" /\ op'.raised = "none")
                => \A e \in Envs :
                       env_steps'[e] = IF e \in op'.env_idxs THEN 0 ELSE env_steps[e]
          /\ op'.name \in {"noop", "is_success", "increment_randomness"}
                => UNCHANGED env_steps]_vars

\* After a noop: one environment, terminated, has been stepped up to the bound,
\* another was reset in between and counts fewer steps.
StepCounterBookkeepingWitness ==
    /\ op.name = "noop"
    /\ \E e \in Envs : \E f \in Envs :
          /\ terminated[e]
          /\ env_steps[e] = max_env_steps
          /\ env_steps[f] > 0
          /\ env_steps[f] < env_steps[e]

\* The number of pairs of environment e recorded as assembled.
NumAssembled(assembled, e) == Cardinality({i \in PairIdx : assembled[e][i]})

\* C28: between two resets of environment e at most as many steps return
\* reward 1 for e as there are required pairs: the number of assembled pairs of
\* e never exceeds the number of required pairs, no step lowers it, and every
\* step that returns reward 1 for e raises it. Once _done reports e as
\* terminated, every step before the next reset of e returns reward 0 and
\* terminated for e.
RewardBudget ==
    /\ \A e \in Envs :
          NumAssembled(already_assembled, e) <= Len(pairs_to_assemble(cfg.furniture_name))
    /\ [][(op'.name = "step" /\ op'.raised = "none") =>
             \A e \in Envs :
                /\ NumAssembled(already_assembled', e) >= NumAssembled(already_assembled, e)
                /\ (reward'.kind = "tensor" /\ reward'.val[e] = 1)
                      => NumAssembled(already_assembled', e)
                             > NumAssembled(already_assembled, e)
                /\ Terminated(already_assembled)[e]
                      => /\ reward'.kind = "tensor"
                         /\ reward'.val[e] = 0
                         /\ terminated'[e]]_vars

\* A lamp environment with both pairs assembled has been stepped a third time:
\* reward 0 and terminated again, while another environment got reward 1 in the
\* same step.
RewardBudgetWitness ==
    /\ op.name = "step"
    /\ Cardinality(PairIdx) = 2
    /\ \E e \in Envs : \E f \in Envs :
          /\ env_steps[e] = 3
          /\ terminated[e]
          /\ reward.val[e] = 0
          /\ reward.val[f] = 1

\* ------------------------------------------- claims on the gripper command
\* C29: after every step, an environment whose clamped grasp has magnitude
\* above grasp_margin is commanded fully open (max_gripper_width) for grasp < 0
\* and fully closed (0) for grasp > 0, whatever its previous grasp was; the
\* commanded width of every environment is one of these two values, and the
\* finger torque is +gripper_torque with open and -gripper_torque with closed.
GripperCommandAboveMargin ==
    (op.name = "step" /\ op.raised = "none") =>
        \A e \in Envs :
            /\ last_grasp[e] < -grasp_margin => grip_sep[e] = max_gripper_width
            /\ last_grasp[e] > grasp_margin => grip_sep[e] = 0
            /\ grip_sep[e] \in {0, max_gripper_width}
            /\ grip_sep[e] = max_gripper_width => ctrl_goal[e].finger_torque = 1
            /\ grip_sep[e] = 0 => ctrl_goal[e].finger_torque = -1

\* Two steps in: one environment was sent a grasp above the margin and is
\* commanded closed with torque -gripper_torque, another a grasp below minus the
\* margin and is commanded open with torque +gripper_torque.
GripperCommandAboveMarginWitness ==
    /\ op.name = "step"
    /\ \E e \in Envs : \E f \in Envs :
          /\ env_steps[e] = 2
          /\ last_grasp[e] > grasp_margin
          /\ grip_sep[e] = 0
          /\ ctrl_goal[e].finger_torque = -1
          /\ last_grasp[f] < -grasp_margin
          /\ grip_sep[f] = max_gripper_width
          /\ ctrl_goal[f].finger_torque = 1

====
